---- MODULE Spec2Model ----
(***************************************************************************)
(* Model of gen_requirements.py: scan -> parse -> classify -> resolve ->   *)
(* write.  Strings are TLA+ strings handled character by character         *)
(* (Len, SubSeq, \o), paths are POSIX paths (os.sep = "/").                *)
(***************************************************************************)
EXTENDS Integers, Sequences, FiniteSets, TLC

(* ------------------------------ bounds --------------------------------- *)

\* longest candidate list handed to pick_best_dist_for_module
MaxDists == 2
\* deepest nesting of directories below the project root
MaxDepth == 2
\* number of invocations of the tool over the same project
MaxRuns == 2

(* ------------------------- string primitives --------------------------- *)
(* The primitives are functions: a function's argument is evaluated once,  *)
(* before the function is applied.                                         *)

\* the characters that occur in the model, in code-point order
Chars == "-./0123456789ABCDEFGHIJKLMNOPQRSTUVWXYZ_abcdefghijklmnopqrstuvwxyz"
UpperChars == "ABCDEFGHIJKLMNOPQRSTUVWXYZ"
LowerChars == "abcdefghijklmnopqrstuvwxyz"

CharAt(s, i) == SubSeq(s, i, i)

Ord[c \in STRING] == CHOOSE i \in 1..Len(Chars) : CharAt(Chars, i) = c

Min(a, b) == IF a <= b THEN a ELSE b

\* Python's < on str, lexicographic by code point: after a common prefix of
\* k characters a has ended and b has not, or a's next character is smaller
StrLess[a \in STRING, b \in STRING] ==
  \E k \in 0..Min(Len(a), Len(b)) :
    /\ SubSeq(a, 1, k) = SubSeq(b, 1, k)
    /\ k < Len(b)
    /\ (k = Len(a) \/ Ord[CharAt(a, k + 1)] < Ord[CharAt(b, k + 1)])

LowerChar[c \in STRING] ==
  IF \E i \in 1..Len(UpperChars) : CharAt(UpperChars, i) = c
  THEN CharAt(LowerChars, CHOOSE i \in 1..Len(UpperChars) : CharAt(UpperChars, i) = c)
  ELSE c

\* str.lower(), from the i-th character on
LowerFrom[s \in STRING, i \in Nat] ==
  IF i > Len(s) THEN "" ELSE LowerChar[CharAt(s, i)] \o LowerFrom[s, i + 1]
Lower(s) == LowerFrom[s, 1]

\* str.replace("_", "-"), from the i-th character on
ReplaceFrom[s \in STRING, i \in Nat] ==
  IF i > Len(s) THEN ""
  ELSE (IF CharAt(s, i) = "_" THEN "-" ELSE CharAt(s, i)) \o ReplaceFrom[s, i + 1]
ReplaceUnderscore(s) == ReplaceFrom[s, 1]

\* str.startswith / str.endswith / the substring test "sub in s"
StartsWith[s \in STRING, p \in STRING] == Len(s) >= Len(p) /\ SubSeq(s, 1, Len(p)) = p
EndsWith[s \in STRING, suf \in STRING] ==
  Len(s) >= Len(suf) /\ SubSeq(s, Len(s) - Len(suf) + 1, Len(s)) = suf
Contains[s \in STRING, sub \in STRING] ==
  \E i \in 1..(Len(s) - Len(sub) + 1) : SubSeq(s, i, i + Len(sub) - 1) = sub

\* str.split(sepc): the pieces between the occurrences of the character;
\* SepAt[s, sepc, k] is where the k-th occurrence is, 0 before the first
\* piece and Len(s) + 1 after the last
SepPositions[s \in STRING, sepc \in STRING] == {i \in 1..Len(s) : CharAt(s, i) = sepc}
SepAt[s \in STRING, sepc \in STRING, k \in Nat] ==
  IF k = 0 THEN 0
  ELSE IF k > Cardinality(SepPositions[s, sepc]) THEN Len(s) + 1
  ELSE CHOOSE p \in SepPositions[s, sepc] :
         Cardinality({q \in SepPositions[s, sepc] : q < p}) = k - 1
Split[s \in STRING, sepc \in STRING] ==
  [k \in 1..(Cardinality(SepPositions[s, sepc]) + 1) |->
     SubSeq(s, SepAt[s, sepc, k - 1] + 1, SepAt[s, sepc, k] - 1)]

\* sorted(set of str): the i-th element has i - 1 elements below it
SortedStrs[S \in SUBSET STRING] ==
  [i \in 1..Cardinality(S) |->
     CHOOSE x \in S : Cardinality({y \in S : StrLess[y, x]}) = i - 1]

Range(f) == {f[i] : i \in DOMAIN f}

(* --------------------- distribution resolution ------------------------- *)

\* top_to_dists.get(mod) on the map build_top_to_dists_map returns
TopToDists(e, mod) == IF mod \in DOMAIN e.top_to_dists THEN e.top_to_dists[mod] ELSE <<>>

\* metadata.version(dist); "" stands for PackageNotFoundError
Version(e, dist) == IF dist \in DOMAIN e.versions THEN e.versions[dist] ELSE ""

normalize_dist_name(name) == ReplaceUnderscore(name)

\* the score of a candidate from the lower-cased, hyphenated names
ScoreOf[mod_l \in STRING, d_l \in STRING] ==
  (IF d_l = mod_l THEN 100 ELSE 0) + (IF Contains[d_l, mod_l] THEN 10 ELSE 0) - Len(d_l)

\* the score pick_best_dist_for_module gives candidate d
Score(mod, d) == ScoreOf[ReplaceUnderscore(Lower(mod)), ReplaceUnderscore(Lower(d))]

\* tuple comparison (score, d) <= (score', d') used by scores.sort
TupleLeq[s1 \in Int, d1 \in STRING, s2 \in Int, d2 \in STRING] ==
  s1 < s2 \/ (s1 = s2 /\ (d1 = d2 \/ StrLess[d1, d2]))

\* scores.sort(reverse=True); return scores[0][1]
pick_best_dist_for_module(mod, dists) ==
  dists[CHOOSE k \in 1..Len(dists) :
          \A j \in 1..Len(dists) :
            TupleLeq[Score(mod, dists[j]), dists[j], Score(mod, dists[k]), dists[k]]]

(* --------------------------- path handling ------------------------------ *)

sep == "/"

\* sep.join(segs[i:])
JoinFrom[segs \in Seq(STRING), i \in Nat] ==
  IF i > Len(segs) THEN ""
  ELSE IF i = Len(segs) THEN segs[i]
  ELSE segs[i] \o sep \o JoinFrom[segs, i + 1]

\* posixpath.normpath on the segments of an absolute path, from the i-th on:
\* empty and "." segments are dropped, ".." removes the segment before it
\* (none at the root)
NormSegs[segs \in Seq(STRING), i \in Nat, acc \in Seq(STRING)] ==
  IF i > Len(segs) THEN acc
  ELSE IF segs[i] = "" \/ segs[i] = "." THEN NormSegs[segs, i + 1, acc]
  ELSE IF segs[i] = ".." THEN NormSegs[segs, i + 1, SubSeq(acc, 1, Len(acc) - 1)]
  ELSE NormSegs[segs, i + 1, Append(acc, segs[i])]

\* os.path.normcase(os.path.abspath(p)) for an absolute POSIX path: normcase
\* returns its argument, abspath is normpath; exactly two leading slashes are kept
NormPath[p \in STRING] ==
  (IF StartsWith[p, "//"] /\ ~StartsWith[p, "///"] THEN "//" ELSE "/")
  \o JoinFrom[NormSegs[Split[p, sep], 1, <<>>], 1]
norm(p) == NormPath[p]

\* sysconfig.get_paths().get("stdlib"), normalised; "" when there is none
get_stdlib_dir(e) == IF e.stdlib # "" THEN norm(e.stdlib) ELSE ""

\* site / user-site / purelib / platlib directories, normalised
get_site_package_dirs(e) == {norm(d) : d \in e.site}

\* the test o.startswith(d + os.sep) or o == d
PathUnder(o, d) == StartsWith[o, d \o sep] \/ o = d

(* ------------------------- the project tree ---------------------------- *)

\* a tree is [dirs, files]: sets of paths relative to the root, a path being
\* the sequence of names from the root (<<>> is the root itself)
Exists(t, path) == path \in t.dirs \/ path \in t.files

is_local_module(name, t) ==
  Exists(t, <<name \o ".py">>) \/ Exists(t, <<name, "__init__.py">>)

\* importlib.util.find_spec(name): [found, raises, origin, locs]; found is
\* FALSE for None, origin "" is None, locs are the submodule_search_locations;
\* raises is TRUE when the call raises ValueError instead of returning
NoSpec == [found |-> FALSE, raises |-> FALSE, origin |-> "", locs |-> <<>>]
find_spec(e, name) == IF name \in DOMAIN e.specs THEN e.specs[name] ELSE NoSpec

\* the normalised origin paths of a module specification
Origins(spec) ==
  {norm(p) : p \in {q \in (IF spec.origin # "" THEN {spec.origin} ELSE {}) \cup Range(spec.locs) : q # ""}}

\* the decision from the origin paths and the three kinds of directory
KindOf[origins \in SUBSET STRING, proj \in STRING, stdlib_dir \in STRING, site_dirs \in SUBSET STRING] ==
  IF \E o \in origins : PathUnder(o, proj) THEN "local"
  ELSE IF stdlib_dir # "" /\ \E o \in origins : PathUnder(o, stdlib_dir) THEN "stdlib"
  ELSE IF \E o \in origins : \E sd \in site_dirs : PathUnder(o, sd) THEN "thirdparty"
  ELSE "unknown"

\* classify_module_origin after its quick local check
ClassifyBySpec(spec, e) ==
  IF ~spec.found THEN "unknown"
  ELSE IF spec.origin \in {"built-in", "frozen"} THEN "stdlib"
  ELSE KindOf[Origins(spec), norm(e.project_root), get_stdlib_dir(e), get_site_package_dirs(e)]

\* classify_module_origin without its quick local check
classify_without_local_check(name, t, e) ==
  IF find_spec(e, name).raises THEN "ValueError"
  ELSE ClassifyBySpec(find_spec(e, name), e)

\* the kind returned, or "ValueError" when find_spec raises: the function has
\* no handler and the exception leaves it
classify_module_origin(name, t, e) ==
  IF is_local_module(name, t) THEN "local"
  ELSE IF find_spec(e, name).raises THEN "ValueError"
  ELSE ClassifyBySpec(find_spec(e, name), e)

(* -------------------------- file discovery ----------------------------- *)

EXCLUDE_DIRS ==
  {".git", ".hg", ".svn", "__pycache__", ".mypy_cache", ".pytest_cache",
   ".tox", ".venv", "venv", "env", "build", "dist", ".idea", ".vscode"}
EXCLUDE_FILE_SUFFIXES == {"_pb2.py"}

\* the walk without the pruning of dirnames
PruneNothing(dirnames) == dirnames

\* dirnames[:] = [d for d in dirnames if d not in EXCLUDE_DIRS]
PruneDirs(dirnames) == SelectSeq(dirnames, LAMBDA d : d \notin EXCLUDE_DIRS)

\* fn.endswith(".py") and not any(fn.endswith(suf) for suf in EXCLUDE_FILE_SUFFIXES)
KeepFile(fn) == EndsWith[fn, ".py"] /\ ~\E suf \in EXCLUDE_FILE_SUFFIXES : EndsWith[fn, suf]

ChildNames(S, dir) == {p[Len(p)] : p \in {q \in S : Len(q) = Len(dir) + 1 /\ SubSeq(q, 1, Len(dir)) = dir}}

\* every order in which a directory listing can return the names of S
Orders(S) == {f \in [1..Cardinality(S) -> S] : \A i, j \in 1..Cardinality(S) : f[i] = f[j] => i = j}

MapSeq(s, Op(_)) == [i \in 1..Len(s) |-> Op(s[i])]

(* -------------------------- import extraction -------------------------- *)

\* name.split(".")[0]
FirstOfSplit(name) == Split[name, "."][1]

\* NodeNames without the test of node.level
NodeNamesIgnoringLevel(node) ==
  IF node.kind = "Import"
  THEN {FirstOfSplit(a) : a \in Range(node.names)} \ {""}
  ELSE IF node.module # "" THEN {FirstOfSplit(node.module)} \ {""}
  ELSE {}

\* the names one Import / ImportFrom node adds to mods
NodeNames(node) ==
  IF node.kind = "Import"
  THEN {FirstOfSplit(a) : a \in Range(node.names)} \ {""}
  ELSE IF node.level # 0 THEN {}
  ELSE IF node.module # "" THEN {FirstOfSplit(node.module)} \ {""}
  ELSE {}

\* src is [ok, raises, nodes]: ok is FALSE when ast.parse raises SyntaxError,
\* nodes are the Import / ImportFrom nodes ast.walk meets; raises is TRUE when
\* read_text or ast.parse raises an exception the function does not catch
extract_top_level_imports(src) ==
  IF ~src.ok THEN {}
  ELSE UNION {NodeNames(node) : node \in src.nodes}

(* ------------------------- manifest helpers ---------------------------- *)

\* a dict of str to str, kept as the sequence of its items in insertion order
Dicts == Seq(Seq(STRING))

\* reqs[key] = ver
DictSet[d \in Dicts, key \in STRING, ver \in STRING] ==
  IF \E i \in 1..Len(d) : d[i][1] = key
  THEN [i \in 1..Len(d) |-> IF d[i][1] = key THEN <<key, ver>> ELSE d[i]]
  ELSE Append(d, <<key, ver>>)

DictKeys(d) == {d[i][1] : i \in 1..Len(d)}

\* sorted(keys, key=str.lower) is stable: key i comes after the smaller keys
\* and after the earlier keys that are equal to it
Before[keys \in Seq(STRING), j \in Nat, i \in Nat] ==
  StrLess[keys[j], keys[i]] \/ (keys[j] = keys[i] /\ j < i)
SortedOrder[keys \in Seq(STRING)] ==
  [k \in 1..Len(keys) |->
     CHOOSE i \in 1..Len(keys) : Cardinality({j \in 1..Len(keys) : Before[keys, j, i]}) = k - 1]

\* sorted(reqs_map.items(), key=lambda x: x[0].lower())
SortedItems(d) == MapSeq(SortedOrder[MapSeq(d, LAMBDA it : Lower(it[1]))], LAMBDA i : d[i])

\* [f"{dist}=={ver}" for dist, ver in sorted(reqs_map.items(), ...)]
ManifestLines(d) == MapSeq(SortedItems(d), LAMBDA it : it[1] \o "==" \o it[2])

\* "\n".join(lines[i:])
JoinLines[ls \in Seq(STRING), i \in Nat] ==
  IF i > Len(ls) THEN ""
  ELSE IF i = Len(ls) THEN ls[i]
  ELSE ls[i] \o "\n" \o JoinLines[ls, i + 1]

\* "\n".join(lines) + ("\n" if lines else "")
ManifestText(ls) == JoinLines[ls, 1] \o (IF Len(ls) > 0 THEN "\n" ELSE "")

(* ------------------------------ state ---------------------------------- *)

VARIABLES
  tree,             \* the project directory under --root
  source,           \* what parsing each .py file of the tree gives
  env,              \* the interpreter's layout and installed-package metadata
  out_file,         \* content of the --out file, NoFile while it does not exist
  run,              \* which invocation of the tool this is
  pc,               \* position of main: walk, extract, classify, resolve, done
  stack,            \* directories os.walk still has to visit
  py_files,         \* find_python_files' result so far
  idx,              \* next element of py_files to extract
  all_imports,
  todo,             \* names the classification loop still has to visit
  third_party_mods,
  skipped_local,
  skipped_stdlib,
  unknown_kind,
  passed,           \* the modules main handed to resolve_requirements
  mods,             \* modules the resolver loop still has to visit
  reqs,
  unresolved,
  last_pick,        \* mod, dists and chosen of the last pick_best_dist_for_module call
  lines,
  stdout,           \* what main printed, one record per message
  exit_code,        \* NotExited until the process ends
  writes,           \* write_text calls of this run
  prev_out,         \* out_file as this run found it
  prev_files        \* py_files of the invocation before this one

vars == <<tree, source, env, out_file, run, pc, stack, py_files, idx, all_imports,
          todo, third_party_mods, skipped_local, skipped_stdlib, unknown_kind,
          passed, mods, reqs, unresolved, last_pick, lines, stdout, exit_code,
          writes, prev_out, prev_files>>

inputs == <<tree, source, env>>
buckets == <<third_party_mods, skipped_local, skipped_stdlib, unknown_kind>>
resolver == <<passed, mods, reqs, unresolved, last_pick>>
output == <<out_file, lines, stdout, exit_code, writes>>

NoFile == "<no file>"
NotExited == -1
NoPick == [mod |-> "", dists |-> <<>>, chosen |-> ""]

Msg(tag, names, n) == [tag |-> tag, names |-> names, n |-> n]

\* the locals of main before its first statement
StartOfRun ==
  /\ pc = "walk"
  /\ stack = << <<>> >>
  /\ py_files = <<>>
  /\ idx = 1
  /\ all_imports = {}
  /\ todo = <<>>
  /\ third_party_mods = {} /\ skipped_local = {}
  /\ skipped_stdlib = {} /\ unknown_kind = {}
  /\ passed = {} /\ mods = <<>> /\ reqs = <<>> /\ unresolved = <<>>
  /\ last_pick = NoPick
  /\ lines = <<>>
  /\ stdout = <<>>
  /\ exit_code = NotExited
  /\ writes = 0

\* main's locals as a fresh invocation sets them
ResetLocals ==
  /\ pc' = "walk"
  /\ stack' = << <<>> >>
  /\ py_files' = <<>>
  /\ idx' = 1
  /\ all_imports' = {}
  /\ todo' = <<>>
  /\ third_party_mods' = {} /\ skipped_local' = {}
  /\ skipped_stdlib' = {} /\ unknown_kind' = {}
  /\ passed' = {} /\ mods' = <<>> /\ reqs' = <<>> /\ unresolved' = <<>>
  /\ last_pick' = NoPick
  /\ lines' = <<>>
  /\ stdout' = <<>>
  /\ exit_code' = NotExited
  /\ writes' = 0

(* ----------------------------- actions --------------------------------- *)

\* one iteration of os.walk in find_python_files: list the directory, prune
\* the excluded subdirectories, keep the matching files, descend
WalkDir ==
  /\ pc = "walk" /\ stack # <<>>
  /\ LET top == Head(stack) IN
       IF top \notin tree.dirs
       THEN stack' = Tail(stack) /\ py_files' = py_files
       ELSE \E fs \in Orders(ChildNames(tree.files, top)), ds \in Orders(ChildNames(tree.dirs, top)) :
              /\ py_files' = py_files \o MapSeq(SelectSeq(fs, KeepFile), LAMBDA fn : Append(top, fn))
              /\ stack' = MapSeq(PruneDirs(ds), LAMBDA d : Append(top, d)) \o Tail(stack)
  /\ UNCHANGED <<inputs, run, pc, idx, all_imports, todo, buckets, resolver, output, prev_out, prev_files>>

\* if not py_files: print [INFO]; sys.exit(0)
NoFilesExit ==
  /\ pc = "walk" /\ stack = <<>> /\ py_files = <<>>
  /\ stdout' = Append(stdout, Msg("INFO_NOFILES", <<>>, 0))
  /\ exit_code' = 0
  /\ pc' = "done"
  /\ UNCHANGED <<inputs, run, stack, py_files, idx, all_imports, todo, buckets, resolver,
                 out_file, lines, writes, prev_out, prev_files>>

StartExtract ==
  /\ pc = "walk" /\ stack = <<>> /\ py_files # <<>>
  /\ pc' = "extract"
  /\ UNCHANGED <<inputs, run, stack, py_files, idx, all_imports, todo, buckets, resolver,
                 output, prev_out, prev_files>>

\* an exception no handler catches leaves main: the interpreter prints the
\* traceback on stderr and the process ends with status 1
Traceback ==
  /\ exit_code' = 1
  /\ pc' = "done"
  /\ UNCHANGED <<out_file, lines, stdout, writes>>

\* all_imports = extract_top_level_imports(f): the union forgotten
AccumulateOverwrite(acc, new) == new

\* all_imports |= extract_top_level_imports(f)
Accumulate(acc, new) == acc \cup new

ExtractFile ==
  /\ pc = "extract" /\ idx <= Len(py_files)
  /\ IF source[py_files[idx]].raises
     THEN Traceback /\ UNCHANGED <<all_imports, idx>>
     ELSE /\ all_imports' = Accumulate(all_imports, extract_top_level_imports(source[py_files[idx]]))
          /\ idx' = idx + 1
          /\ UNCHANGED <<pc, output>>
  /\ UNCHANGED <<inputs, run, stack, py_files, todo, buckets, resolver, prev_out, prev_files>>

\* for name in sorted(all_imports)
ExtractDone ==
  /\ pc = "extract" /\ idx > Len(py_files)
  /\ todo' = SortedStrs[all_imports]
  /\ pc' = "classify"
  /\ UNCHANGED <<inputs, run, stack, py_files, idx, all_imports, buckets, resolver, output, prev_out, prev_files>>

ClassifyName ==
  /\ pc = "classify" /\ todo # <<>>
  /\ LET name == Head(todo)
         kind == classify_module_origin(name, tree, env)
     IN IF kind = "ValueError"
        THEN Traceback /\ UNCHANGED <<buckets, todo>>
        ELSE /\ third_party_mods' = IF kind = "thirdparty" THEN third_party_mods \cup {name} ELSE third_party_mods
             /\ skipped_local' = IF kind = "local" THEN skipped_local \cup {name} ELSE skipped_local
             /\ skipped_stdlib' = IF kind = "stdlib" THEN skipped_stdlib \cup {name} ELSE skipped_stdlib
             /\ unknown_kind' = IF kind \notin {"thirdparty", "local", "stdlib"}
                                THEN unknown_kind \cup {name} ELSE unknown_kind
             /\ todo' = Tail(todo)
             /\ UNCHANGED <<pc, output>>
  /\ UNCHANGED <<inputs, run, stack, py_files, idx, all_imports, resolver, prev_out, prev_files>>

\* resolve_requirements(third_party_mods | unknown_kind): for mod in sorted(set(modules))
ClassifyDone ==
  /\ pc = "classify" /\ todo = <<>>
  /\ passed' = third_party_mods \cup unknown_kind
  /\ mods' = SortedStrs[passed']
  /\ pc' = "resolve"
  /\ UNCHANGED <<inputs, run, stack, py_files, idx, all_imports, todo, buckets, reqs,
                 unresolved, last_pick, output, prev_out, prev_files>>

\* one iteration of the loop of resolve_requirements
ResolveMod ==
  /\ pc = "resolve" /\ mods # <<>>
  /\ LET mod == Head(mods)
         dists == TopToDists(env, mod)
         chosen == pick_best_dist_for_module(mod, dists)
     IN IF dists = <<>>
        THEN /\ unresolved' = Append(unresolved, mod)
             /\ UNCHANGED <<reqs, last_pick>>
        ELSE /\ last_pick' = [mod |-> mod, dists |-> dists, chosen |-> chosen]
             /\ IF Version(env, chosen) = ""
                THEN unresolved' = Append(unresolved, mod) /\ reqs' = reqs
                ELSE reqs' = DictSet[reqs, normalize_dist_name(chosen), Version(env, chosen)]
                     /\ unresolved' = unresolved
  /\ mods' = Tail(mods)
  /\ UNCHANGED <<inputs, run, pc, stack, py_files, idx, all_imports, todo, buckets, passed,
                 output, prev_out, prev_files>>

\* unresolved_set = set(unresolved) - set(reqs_map.keys())
UnresolvedSet(unres, d) == Range(unres) \ DictKeys(d)

\* the diagnostics main prints after the write
Report(ls) ==
  <<Msg("OK", <<>>, Len(ls))>>
  \o (IF skipped_local # {} THEN <<Msg("INFO_LOCAL", SortedStrs[skipped_local], 0)>> ELSE <<>>)
  \o (IF skipped_stdlib # {} THEN <<Msg("INFO_STDLIB", SortedStrs[skipped_stdlib], 0)>> ELSE <<>>)
  \o (IF UnresolvedSet(unresolved, reqs) # {}
      THEN <<Msg("WARN", SortedStrs[UnresolvedSet(unresolved, reqs)], 0)>> ELSE <<>>)

\* the resolver returns; main writes the manifest, prints and returns
WriteAndReport ==
  /\ pc = "resolve" /\ mods = <<>>
  /\ lines' = ManifestLines(reqs)
  /\ out_file' = ManifestText(lines')
  /\ writes' = writes + 1
  /\ stdout' = stdout \o Report(lines')
  /\ exit_code' = 0
  /\ pc' = "done"
  /\ UNCHANGED <<inputs, run, stack, py_files, idx, all_imports, todo, buckets, resolver, prev_out, prev_files>>

\* the tool is invoked again on the same project and environment
Rerun ==
  /\ pc = "done" /\ run < MaxRuns
  /\ run' = run + 1
  /\ prev_out' = out_file
  /\ prev_files' = py_files
  /\ ResetLocals
  /\ UNCHANGED <<inputs, out_file>>

Next ==
  \/ WalkDir
  \/ NoFilesExit
  \/ StartExtract
  \/ ExtractFile
  \/ ExtractDone
  \/ ClassifyName
  \/ ClassifyDone
  \/ ResolveMod
  \/ WriteAndReport
  \/ Rerun

(* ------------------------------ inputs --------------------------------- *)

Import(names) == [kind |-> "Import", level |-> 0, module |-> "", names |-> names]
ImportFrom(level, module, names) ==
  [kind |-> "ImportFrom", level |-> level, module |-> module, names |-> names]
Parsed(nodes) == [ok |-> TRUE, raises |-> FALSE, nodes |-> nodes]
\* ast.parse raises SyntaxError
Unparsable == [ok |-> FALSE, raises |-> FALSE, nodes |-> {}]
\* ast.parse raises RecursionError (an expression nested too deep for the
\* parser), or read_text raises OSError (a dangling link, an unreadable file)
Unscannable == [ok |-> FALSE, raises |-> TRUE, nodes |-> {}]

Module(path) == [found |-> TRUE, raises |-> FALSE, origin |-> path, locs |-> <<>>]
Package(dir) == [found |-> TRUE, raises |-> FALSE, origin |-> dir \o "/__init__.py", locs |-> <<dir>>]
BuiltIn == [found |-> TRUE, raises |-> FALSE, origin |-> "built-in", locs |-> <<>>]
\* the name is in sys.modules with __spec__ None, as __main__ is in a script:
\* find_spec raises ValueError
SpecIsNone == [found |-> FALSE, raises |-> TRUE, origin |-> "", locs |-> <<>>]

\* the .py files of a tree: the ones parsing can be asked about
PyPaths(t) == {f \in t.files : EndsWith[f[Len(f)], ".py"]}

\* the directories a set of files lies in, the root included
DirsOf(files) == UNION {{SubSeq(f, 1, k) : k \in 0..(Len(f) - 1)} : f \in files} \cup {<<>>}
TreeOf(files) == [dirs |-> DirsOf(files), files |-> files]
\* --root names no directory: os.walk yields nothing
NoRoot == [dirs |-> {}, files |-> {}]

\* an interpreter with the project at root, the standard library at stdlib and
\* one site directory: os and json ship with it, sys is built in, __main__ is
\* the running script; requests,
\* yaml (of PyYAML), attr (of attrs) and six (of six, whose version metadata
\* is missing) are installed; the metadata names PyYAML for pyyaml too
MainEnv(root, stdlib, site) ==
  [project_root |-> root, stdlib |-> stdlib, site |-> {site},
   specs |-> [n \in {"os", "json", "sys", "__main__", "requests", "yaml", "attr", "six"} |->
                CASE n = "os" -> Module(stdlib \o "/os.py")
                  [] n = "__main__" -> SpecIsNone
                  [] n = "json" -> Package(stdlib \o "/json")
                  [] n = "sys" -> BuiltIn
                  [] n = "six" -> Module(site \o "/six.py")
                  [] OTHER -> Package(site \o "/" \o n)],
   top_to_dists |-> [n \in {"requests", "yaml", "pyyaml", "attr", "six"} |->
                CASE n = "requests" -> <<"requests">>
                  [] n = "attr" -> <<"attrs">>
                  [] n = "six" -> <<"six">>
                  [] OTHER -> <<"PyYAML">>],
   versions |-> [d \in {"requests", "PyYAML", "attrs"} |->
                CASE d = "requests" -> "2.31.0"
                  [] d = "attrs" -> "23.1.0"
                  [] OTHER -> "6.0.1"]]

\* a virtual environment beside the project; a system install, whose site
\* directory lies inside the standard-library directory; a virtual
\* environment inside the project
MainEnvs ==
  {MainEnv("/proj", "/usr/lib/py", "/venv/lib/py/site"),
   MainEnv("/proj", "/usr/lib/py", "/usr/lib/py/site"),
   MainEnv("/proj", "/usr/lib/py", "/proj/.venv/lib/py/site")}

MainSources ==
  {Parsed({Import(<<"os">>), Import(<<"json">>), Import(<<"requests">>)}),
   Parsed({Import(<<"yaml", "pyyaml">>)}),
   Parsed({ImportFrom(1, "", <<"helper">>), ImportFrom(1, "pkg", <<"y">>)}),
   Parsed({Import(<<"numpy">>)}),
   Parsed({Import(<<"yaml.nodes">>), Import(<<"PyYAML">>)}),
   Parsed({ImportFrom(0, "requests.adapters", <<"HTTPAdapter">>), Import(<<"attr">>),
           Import(<<"sys">>), Import(<<"six">>)}),
   Parsed({Import(<<"__main__">>), Import(<<"requests">>)}),
   Unparsable,
   Unscannable}

MainTrees ==
  {NoRoot,
   TreeOf({<<"notes.txt">>}),
   TreeOf({<<"a.py">>}),
   TreeOf({<<"a.py">>, <<"b.py">>}),
   TreeOf({<<"a.py">>, <<"pkg", "b.py">>}),
   TreeOf({<<"a.py">>, <<"requests.py">>}),
   TreeOf({<<"a.py">>, <<"yaml", "__init__.py">>}),
   TreeOf({<<"a.py">>, <<"build", "c.py">>})}

\* the state before the first invocation: the output file does not exist
FirstRun ==
  /\ out_file = NoFile
  /\ prev_out = NoFile
  /\ prev_files = <<>>
  /\ run = 1
  /\ StartOfRun

Init ==
  /\ tree \in MainTrees
  /\ source \in [PyPaths(tree) -> MainSources]
  /\ env \in MainEnvs
  /\ FirstRun

Spec == Init /\ [][Next]_vars

\* the projects of one or two files in one directory, and the missing root
FairInit ==
  /\ tree \in {NoRoot, TreeOf({<<"a.py">>}), TreeOf({<<"a.py">>, <<"b.py">>})}
  /\ source \in [PyPaths(tree) -> MainSources]
  /\ env \in MainEnvs
  /\ FirstRun

\* main runs on one thread with nothing to wait for: every step that can be
\* taken is taken
FairSpec == FairInit /\ [][Next]_vars /\ WF_vars(Next)

(* ---- file discovery over every tree of two chains of directories ---- *)

WalkDirNames == {"pkg", "build"}
WalkFileSets == {{"m.py"}, {"m.py", "m_pb2.py"}, {"m_pb2.py", "notes.txt"}, {"m.py", "notes.txt"}}

\* the chains of at most MaxDepth nested directories
Chains == UNION {[1..n -> WalkDirNames] : n \in 0..MaxDepth}

\* the files named fs in every directory along a chain, the root included
FilesAlong(chain, fs) == {Append(SubSeq(chain, 1, k), fn) : k \in 0..Len(chain), fn \in fs}

WalkTrees ==
  {NoRoot} \cup {TreeOf(FilesAlong(c1, fs) \cup FilesAlong(c2, fs)) : c1 \in Chains, c2 \in Chains, fs \in WalkFileSets}

InitWalk ==
  /\ tree \in WalkTrees
  /\ source = [f \in PyPaths(tree) |-> Parsed({Import(<<"os">>), Import(<<"requests">>)})]
  /\ env = MainEnv("/proj", "/usr/lib/py", "/venv/lib/py/site")
  /\ FirstRun

SpecWalk == InitWalk /\ [][Next]_vars

(* ---- the choice of a distribution over every short candidate list ---- *)

PickMods == {"yaml", "py_yaml"}
PickDists == {"yaml", "Yaml", "PyYAML", "py-yaml", "ruamel-yaml-clib", "abc"}
PickLists == UNION {[1..n -> PickDists] : n \in 0..MaxDists}

InitPick ==
  /\ tree \in {NoRoot, TreeOf({<<"a.py">>})}
  /\ \E mod \in PickMods, dists \in PickLists :
       /\ source = [f \in PyPaths(tree) |-> Parsed({Import(<<mod>>)})]
       /\ env = [project_root |-> "/proj", stdlib |-> "/usr/lib/py", site |-> {"/venv/lib/py/site"},
                 specs |-> [n \in {mod} |-> Package("/venv/lib/py/site/" \o mod)],
                 top_to_dists |-> [n \in {mod} |-> dists],
                 versions |-> [d \in PickDists |-> "1.0"]]
  /\ FirstRun

SpecPick == InitPick /\ [][Next]_vars

(* ---- classification over the placements of the three directories ---- *)

ClassifyRoots == {"/", "/proj", "/lib"}
ClassifyStdlibs == {"", "/lib", "/lib/", "/usr/lib"}
ClassifySites == {{"/lib/site"}, {"/site", "/usr/lib/site"}, {"/lib-extra"}}
ClassifySpecs ==
  {NoSpec, SpecIsNone, BuiltIn,
   [found |-> TRUE, raises |-> FALSE, origin |-> "frozen", locs |-> <<>>],
   [found |-> TRUE, raises |-> FALSE, origin |-> "", locs |-> <<"/site/m">>],
   Module("/lib/m.py"), Module("/lib-extra/m.py"), Module("/site/m.py"), Module("/opt/m.py"),
   Package("/lib/site/m"), Package("/proj/vendor/m"), Package("/usr/lib/m"), Module("/lib")}

InitClassify ==
  /\ tree \in {NoRoot, TreeOf({<<"a.py">>}), TreeOf({<<"a.py">>, <<"m.py">>})}
  /\ source = [f \in PyPaths(tree) |-> Parsed({Import(<<"m">>)})]
  /\ \E root \in ClassifyRoots, stdlib \in ClassifyStdlibs, site \in ClassifySites, spec \in ClassifySpecs :
       env = [project_root |-> root, stdlib |-> stdlib, site |-> site,
              specs |-> [n \in {"m"} |-> spec],
              top_to_dists |-> [n \in {"m"} |-> <<"m">>],
              versions |-> [d \in {"m"} |-> "1.0"]]
  /\ FirstRun

SpecClassify == InitClassify /\ [][Next]_vars

(* ------------------------------ claims --------------------------------- *)

\* the components of a path, and "o is d or lies below d" on components
Components(p) == SelectSeq(Split[p, sep], LAMBDA c : c # "")
LiesWithin(o, d) ==
  /\ Len(Components(d)) <= Len(Components(o))
  /\ SubSeq(Components(o), 1, Len(Components(d))) = Components(d)

\* '<name>.py' or '<name>/__init__.py' exists directly under the project root
HasLocalFile(name) ==
  \/ <<name \o ".py">> \in tree.files \cup tree.dirs
  \/ <<name, "__init__.py">> \in tree.files \cup tree.dirs

\* the resolver finds a distribution with version metadata for name
Pins(name) ==
  /\ TopToDists(env, name) # <<>>
  /\ Version(env, pick_best_dist_for_module(name, TopToDists(env, name))) # ""

\* name is provided by a distribution installed under a site directory, with
\* version metadata
InstalledUnderSite(name) ==
  LET spec == find_spec(env, name)
  IN /\ spec.found /\ spec.origin \notin {"", "built-in", "frozen"}
     /\ \E sd \in env.site : LiesWithin(spec.origin, sd)
     /\ Pins(name)

PinLine(name) ==
  LET chosen == pick_best_dist_for_module(name, TopToDists(env, name))
  IN normalize_dist_name(chosen) \o "==" \o Version(env, chosen)

Completed == pc = "done" /\ writes = 1

\* C1: in every environment layout, a completed run's manifest holds the line
\* '<package>==<version>' for every imported name that is installed under a
\* site directory with version metadata and has no local file of that name;
\* when the imports are os, json and requests the manifest is exactly
\* 'requests==2.31.0'
C1_InstalledImportsPinned ==
  Completed =>
    /\ \A name \in all_imports :
         (~HasLocalFile(name) /\ InstalledUnderSite(name)) => PinLine(name) \in Range(lines)
    /\ (all_imports = {"os", "json", "requests"} /\ ~HasLocalFile("requests"))
         => out_file = "requests==2.31.0\n"

\* every file has been extracted and the classification loop has its list
ClassifyReached ==
  \/ pc \in {"classify", "resolve"}
  \/ pc = "done" /\ py_files # <<>> /\ idx > Len(py_files)

\* the names the classification loop has visited and given a kind
Classified == IF ClassifyReached THEN all_imports \ Range(todo) ELSE {}

\* C2: a name with a local file or package directly under the root is
\* classified local whatever is installed under that name, is not handed to
\* the resolver and is not resolved to a distribution
C2_LocalPrecedence ==
  \A name \in all_imports :
    HasLocalFile(name) =>
      /\ name \notin third_party_mods \cup skipped_stdlib \cup unknown_kind
      /\ (name \in Classified => name \in skipped_local)
      /\ name \notin passed /\ name \notin Range(mods) /\ name \notin Range(unresolved)
      /\ last_pick.mod # name
      /\ (Completed /\ Pins(name) /\ ~\E other \in passed : Pins(other) /\ PinLine(other) = PinLine(name))
           => PinLine(name) \notin Range(lines)

\* a run completed in which requests.py shadows the installed requests package
C2_Witness ==
  /\ Completed
  /\ HasLocalFile("requests") /\ InstalledUnderSite("requests")
  /\ "requests" \in skipped_local

\* the distribution the resolver picks for a module
Chosen(name) == pick_best_dist_for_module(name, TopToDists(env, name))

\* the package name of a manifest line, and a name with case and separator
\* style ignored
LineName(line) == Split[line, "="][1]
Canonical(d) == ReplaceUnderscore(Lower(d))
LinesOf(d) == {i \in 1..Len(lines) : Canonical(LineName(lines[i])) = Canonical(d)}

\* C4: two distinct import names that resolve to the same distribution give
\* one manifest line, under the normalized package name: yaml and pyyaml,
\* both resolving to PyYAML, give the single line 'pyyaml==<version>'
C4_OneLineUnderNormalizedName ==
  Completed =>
    \A m1, m2 \in passed :
      (m1 # m2 /\ Pins(m1) /\ Pins(m2) /\ Chosen(m1) = Chosen(m2)) =>
        /\ Cardinality(LinesOf(Chosen(m1))) = 1
        /\ (Chosen(m1) = "PyYAML" => "pyyaml==" \o Version(env, "PyYAML") \in Range(lines))

Warned == UNION {Range(m.names) : m \in {x \in Range(stdout) : x.tag = "WARN"}}

\* C5: every name handed to the resolver that stays unresolved is listed in
\* the warning, whatever else was resolved in the run; it adds no manifest
\* line and the run exits with code 0
C5_UnresolvedWarned ==
  Completed =>
    /\ exit_code = 0
    /\ \A m \in passed : ~Pins(m) => m \in Warned /\ m \in Range(unresolved)
    /\ Len(lines) <= Cardinality({m \in passed : Pins(m)})

\* C6: a run over the same files and environment as the run before it, in
\* whatever order the files are discovered, leaves the manifest byte for byte
\* as it was, its lines in ascending order of lower-cased package name
C6_SameManifestInAnyOrder ==
  Completed =>
    /\ run > 1 => out_file = prev_out
    /\ \A i, j \in 1..Len(lines) :
         i < j => ~StrLess[Lower(LineName(lines[j])), Lower(LineName(lines[i]))]

\* the second run found the files in another order and wrote lines
C6_Witness ==
  /\ Completed /\ run > 1
  /\ py_files # prev_files
  /\ Len(lines) > 1

NothingDone ==
  /\ all_imports = {} /\ todo = <<>>
  /\ third_party_mods = {} /\ skipped_local = {} /\ skipped_stdlib = {} /\ unknown_kind = {}
  /\ passed = {} /\ reqs = <<>> /\ unresolved = <<>> /\ last_pick = NoPick

RunEnded ==
  /\ exit_code = 0
  /\ writes = 1 <=> py_files # <<>>
  /\ py_files = <<>> =>
       /\ out_file = prev_out
       /\ NothingDone
       /\ stdout = <<Msg("INFO_NOFILES", <<>>, 0)>>
  /\ py_files # <<>> => out_file = ManifestText(lines)

\* C7: every run ends, with exit code 0; it has written the manifest, once,
\* exactly if file discovery found a file; with no file found it has printed
\* the message and has classified, resolved and written nothing
C7_TerminatesAndWrites ==
  /\ (pc # "done") ~> (pc = "done")
  /\ [](writes <= 1)
  /\ [](pc = "done" => RunEnded)
  /\ [](pc # "done" => exit_code = NotExited)

\* the import nodes of the files extracted so far
ScannedNodes ==
  UNION {source[py_files[i]].nodes : i \in {k \in 1..Len(py_files) : k < idx /\ source[py_files[k]].ok}}

\* the part of a dotted path before its first dot
FirstSegment(s) ==
  IF \E k \in 1..Len(s) : CharAt(s, k) = "."
  THEN SubSeq(s, 1, (CHOOSE k \in 1..Len(s) : CharAt(s, k) = "." /\ \A h \in 1..(k - 1) : CharAt(s, h) # ".") - 1)
  ELSE s

AbsoluteTargets ==
  UNION {{FirstSegment(a) : a \in Range(n.names)} : n \in {x \in ScannedNodes : x.kind = "Import"}}
  \cup {FirstSegment(n.module) : n \in {x \in ScannedNodes : x.kind = "ImportFrom" /\ x.level = 0 /\ x.module # ""}}

RelativeTargets ==
  UNION {Range(n.names) \cup ({FirstSegment(n.module)} \ {""}) :
           n \in {x \in ScannedNodes : x.kind = "ImportFrom" /\ x.level > 0}}

\* C9: the extracted names are exactly the first segments of the absolute
\* imports; a name that only relative imports refer to is in no bucket and
\* is not handed to the resolver
C9_RelativeImportsSkipped ==
  /\ all_imports = AbsoluteTargets
  /\ \A name \in RelativeTargets \ AbsoluteTargets :
       /\ name \notin all_imports
       /\ name \notin third_party_mods \cup skipped_local \cup skipped_stdlib \cup unknown_kind
       /\ name \notin passed /\ name \notin Range(unresolved)

\* a run that scanned 'from .pkg import y' and 'from . import helper' beside
\* absolute imports
C9_Witness ==
  /\ Completed
  /\ {"pkg", "helper"} \subseteq RelativeTargets
  /\ all_imports # {}
  /\ "pkg" \notin all_imports /\ "helper" \notin all_imports

\* exact name, name contained, or neither, with case and separator ignored
Rank(mod, d) ==
  IF Canonical(d) = Canonical(mod) THEN 2
  ELSE IF Contains[Canonical(d), Canonical(mod)] THEN 1
  ELSE 0

\* C3: the chosen candidate has the highest rank among the candidates (exact
\* name over name contained over neither), is among the shortest of that
\* rank, and is the same in whatever order the candidates are listed
C3_HighestRankChosen ==
  last_pick # NoPick =>
    /\ last_pick.chosen \in Range(last_pick.dists)
    /\ \A d \in Range(last_pick.dists) :
         /\ Rank(last_pick.mod, d) <= Rank(last_pick.mod, last_pick.chosen)
         /\ Rank(last_pick.mod, d) = Rank(last_pick.mod, last_pick.chosen)
              => Len(last_pick.chosen) <= Len(d)
    /\ \A other \in Orders(Range(last_pick.dists)) :
         pick_best_dist_for_module(last_pick.mod, other) = last_pick.chosen

\* a file of the tree that the walk has to return: no directory on its path
\* is excluded, its name ends in .py and in no excluded suffix
Wanted(f) ==
  /\ \A k \in 1..(Len(f) - 1) : f[k] \notin EXCLUDE_DIRS
  /\ EndsWith[f[Len(f)], ".py"]
  /\ \A suf \in EXCLUDE_FILE_SUFFIXES : ~EndsWith[f[Len(f)], suf]

\* C8: find_python_files never returns a file below an excluded directory,
\* at any depth, nor a file with an excluded suffix; once the walk is over it
\* has returned every other .py file of the tree, each once
C8_ExcludedNeverReturned ==
  /\ \A i \in 1..Len(py_files) : py_files[i] \in tree.files /\ Wanted(py_files[i])
  /\ (pc # "walk" \/ stack = <<>>) =>
       /\ Range(py_files) = {f \in tree.files : Wanted(f)}
       /\ Cardinality(Range(py_files)) = Len(py_files)

\* the walk is over: it pruned an excluded directory two levels down, with a
\* .py file in it, and returned a file from a directory as deep
C8_Witness ==
  /\ pc = "done"
  /\ \E f \in tree.files : Len(f) = 3 /\ f[2] \in EXCLUDE_DIRS /\ f[1] \notin EXCLUDE_DIRS /\ EndsWith[f[3], ".py"]
  /\ \E g \in Range(py_files) : Len(g) = 3
  /\ \E h \in tree.files : EndsWith[h[Len(h)], "_pb2.py"] /\ h \notin Range(py_files)

\* what the decision order gives when "under" is read on path components
ExpectedKind(name) ==
  LET spec == find_spec(env, name)
      origins == (IF spec.origin # "" THEN {spec.origin} ELSE {}) \cup Range(spec.locs)
  IN IF \E o \in origins : LiesWithin(o, env.project_root) THEN "local"
     ELSE IF env.stdlib # "" /\ \E o \in origins : LiesWithin(o, env.stdlib) THEN "stdlib"
     ELSE IF \E o \in origins : \E sd \in env.site : LiesWithin(o, sd) THEN "thirdparty"
     ELSE "unknown"

KindGiven(name) ==
  IF name \in skipped_local THEN "local"
  ELSE IF name \in skipped_stdlib THEN "stdlib"
  ELSE IF name \in third_party_mods THEN "thirdparty"
  ELSE "unknown"

\* C10: a name with no local file whose specification is found and is not
\* built-in or frozen is local if an origin is the project root or lies below
\* it, else stdlib if one is or lies below the standard-library directory,
\* else thirdparty if one is or lies below a site directory, else unknown;
\* "below" is nesting at a separator boundary, for every directory, the
\* filesystem root included
C10_KindByNesting ==
  \A name \in Classified :
    (~HasLocalFile(name)
       /\ find_spec(env, name).found
       /\ find_spec(env, name).origin \notin {"built-in", "frozen"})
      => KindGiven(name) = ExpectedKind(name)

====
